---- MODULE Spec2Model ----
(***************************************************************************)
(* Model of the hemodynamics engine of app_Version2.js: runSimulation      *)
(* (time-varying elastance LV, two diode valves, Windkessel load, explicit *)
(* Euler loop, last-beat trace, summary metrics) and its caller            *)
(* simulateAndRender.                                                      *)
(*                                                                         *)
(* JavaScript numbers are modelled by Num: a signed fixed-point value with *)
(* Scale units per 1.0 and magnitude at most MaxFin units, plus the IEEE   *)
(* special values +Infinity, -Infinity and NaN.  Every arithmetic result   *)
(* is rounded to the nearest unit (as a double is rounded to the nearest   *)
(* representable value) and overflows to an infinity; division by zero,    *)
(* Infinity - Infinity, 0 * Infinity and comparisons with NaN follow       *)
(* IEEE 754, which is what the JS operators do.                            *)
(***************************************************************************)
EXTENDS Integers, Sequences, FiniteSets, TLC

\* ------------------------------------------------------------------ bounds

\* Largest options the model calls runSimulation with.
MaxSpb == 4
MaxBeats == 2
\* Largest magnitude (in units of 1/Scale) of a finite Num.
MaxFin == 500000000
\* Half-width, in quarter mmHg, of the pressure grid the valve law is checked on.
GridMax == 4
\* Units per 1.0: every literal of the source (0.0025, 0.005, 0.33, 0.05,
\* 0.06, ...) is a whole number of units.
Scale == 4 * 100

\* ------------------------------------------------------------ JS numbers

Fin(n) == [k |-> "fin", v |-> n]
PInf == [k |-> "inf", v |-> 1]
NInf == [k |-> "inf", v |-> -1]
NaN == [k |-> "nan", v |-> 0]

Zero == Fin(0)
One == Fin(Scale)
\* The integer literal n, and the decimal literal n/d.
Num(n) == Fin(n * Scale)
Dec(n, d) == Fin((2 * n * Scale + d) \div (2 * d))

AbsI(n) == IF n < 0 THEN -n ELSE n
SgnI(n) == IF n < 0 THEN -1 ELSE 1
Signed(s, a) == IF a.k = "nan" THEN NaN ELSE [a EXCEPT !.v = s * a.v]
Norm(n) == IF n > MaxFin THEN PInf ELSE IF n < -MaxFin THEN NInf ELSE Fin(n)

IsNaN(a) == a.k = "nan"
\* Number.isFinite
IsFinite(a) == a.k = "fin"
\* Position on the extended real line (NaN excluded by the callers).
Ord(a) == IF a.k = "inf" THEN a.v * (MaxFin + 1) ELSE a.v
\* JS <, <=, >, >= : false as soon as one side is NaN.
Lt(a, b) == ~IsNaN(a) /\ ~IsNaN(b) /\ Ord(a) < Ord(b)
Le(a, b) == ~IsNaN(a) /\ ~IsNaN(b) /\ Ord(a) <= Ord(b)
Gt(a, b) == Lt(b, a)
Ge(a, b) == Le(b, a)

Neg(a) == Signed(-1, a)

\* a + b
Add(a, b) ==
  IF IsNaN(a) \/ IsNaN(b) THEN NaN
  ELSE IF a.k = "inf" THEN (IF b.k = "inf" /\ b.v # a.v THEN NaN ELSE a)
  ELSE IF b.k = "inf" THEN b
  ELSE Norm(a.v + b.v)

\* a - b
Sub(a, b) == Add(a, Neg(b))

\* n/d rounded to the nearest integer, for n >= 0 and d > 0.
RoundDiv(n, d) == (n \div d) + (IF 2 * (n % d) >= d THEN 1 ELSE 0)

\* x*y/Scale rounded, for magnitudes x, y <= MaxFin, computed in parts that
\* fit a machine word; MaxFin + 1 stands for "too large".
MulMag(x, y) ==
  LET a1 == x \div Scale
      a0 == x % Scale
      b1 == y \div Scale
      b0 == y % Scale
  IN  IF a1 > 0 /\ b1 > (MaxFin \div Scale) \div a1 THEN MaxFin + 1
      ELSE a1 * b1 * Scale + a1 * b0 + a0 * b1 + RoundDiv(a0 * b0, Scale)

\* a * b
Mul(a, b) ==
  IF IsNaN(a) \/ IsNaN(b) THEN NaN
  ELSE IF a.k = "inf" \/ b.k = "inf"
       THEN (IF a.v = 0 \/ b.v = 0 THEN NaN
             ELSE IF SgnI(a.v) * SgnI(b.v) > 0 THEN PInf ELSE NInf)
  ELSE Signed(SgnI(a.v) * SgnI(b.v), Norm(MulMag(AbsI(a.v), AbsI(b.v))))

\* <<floor(r*k/y), (r*k) mod y>> for 0 <= r < y, by doubling, so that no
\* intermediate exceeds 2*y.
RECURSIVE LongMul(_, _, _)
LongMul(r, y, k) ==
  IF k = 0 THEN <<0, 0>>
  ELSE LET h == LongMul(r, y, k \div 2)
           c1 == IF 2 * h[2] >= y THEN 1 ELSE 0
           r1 == 2 * h[2] - c1 * y
           r2 == IF k % 2 = 1 THEN r1 + r ELSE r1
           c2 == IF r2 >= y THEN 1 ELSE 0
       IN  <<2 * h[1] + c1 + c2, r2 - c2 * y>>

\* x*Scale/y rounded, for magnitudes x >= 0, y > 0; MaxFin + 1: too large.
DivMag(x, y) ==
  LET q == x \div y
      h == LongMul(x % y, y, Scale)
  IN  IF q > MaxFin \div Scale THEN MaxFin + 1
      ELSE q * Scale + h[1] + (IF 2 * h[2] >= y THEN 1 ELSE 0)

\* a / b  (the model has no negative zero: x/0 takes the sign of x)
Div(a, b) ==
  IF IsNaN(a) \/ IsNaN(b) THEN NaN
  ELSE IF a.k = "inf"
       THEN (IF b.k = "inf" THEN NaN
             ELSE IF a.v * SgnI(b.v) > 0 THEN PInf ELSE NInf)
  ELSE IF b.k = "inf" THEN Zero
  ELSE IF b.v = 0 THEN (IF a.v = 0 THEN NaN ELSE IF a.v > 0 THEN PInf ELSE NInf)
  ELSE Signed(SgnI(a.v) * SgnI(b.v), Norm(DivMag(AbsI(a.v), AbsI(b.v))))

\* a % b : exact, with the sign of the dividend
FMod(a, b) ==
  IF IsNaN(a) \/ IsNaN(b) \/ a.k = "inf" THEN NaN
  ELSE IF b.k = "inf" THEN a
  ELSE IF b.v = 0 THEN NaN
  ELSE Fin(SgnI(a.v) * (AbsI(a.v) % AbsI(b.v)))

\* Math.max(a, b), Math.min(a, b): NaN as soon as one argument is NaN.
MathMax(a, b) == IF IsNaN(a) \/ IsNaN(b) THEN NaN ELSE IF Ord(a) >= Ord(b) THEN a ELSE b
MathMin(a, b) == IF IsNaN(a) \/ IsNaN(b) THEN NaN ELSE IF Ord(a) <= Ord(b) THEN a ELSE b

\* Largest r with r*r <= n, searched in lo..hi.
RECURSIVE ISqrt(_, _, _)
ISqrt(n, lo, hi) ==
  IF lo >= hi THEN lo
  ELSE LET mid == (lo + hi + 1) \div 2
       IN  IF mid * mid <= n THEN ISqrt(n, mid, hi) ELSE ISqrt(n, lo, mid - 1)

\* Math.sqrt of a finite a >= 0
Sqrt(a) ==
  IF a.v <= MaxFin \div Scale
  THEN Fin(ISqrt(a.v * Scale, 0, a.v + Scale))
  ELSE Fin(ISqrt(a.v \div Scale, 0, Scale + MaxFin \div (Scale * Scale)) * Scale)

\* Math.pow(a, 1.5)
Pow15(a) ==
  IF IsNaN(a) THEN NaN
  ELSE IF a.k = "inf" THEN PInf
  ELSE IF a.v < 0 THEN NaN
  ELSE Mul(a, Sqrt(a))

\* Math.PI
Pi == Dec(31416, 10000)

\* Math.sin: odd, period 2*pi, sin(pi - y) = sin(y), and on [0, pi/2] the
\* series y - y^3/3! + y^5/5! - y^7/7!, never above 1.
SinSeries(y) ==
  LET y2 == Mul(y, y)
      t3 == Div(Mul(y, y2), Num(6))
      t5 == Div(Mul(t3, y2), Num(20))
      t7 == Div(Mul(t5, y2), Num(42))
  IN  MathMin(One, MathMax(Zero, Add(Sub(y, t3), Sub(t5, t7))))

Sin(a) ==
  IF ~IsFinite(a) THEN NaN
  ELSE LET m == AbsI(a.v) % (2 * Pi.v)
           h == IF m >= Pi.v THEN m - Pi.v ELSE m
           q == IF 2 * h > Pi.v THEN Pi.v - h ELSE h
           s == SgnI(a.v) * (IF m >= Pi.v THEN -1 ELSE 1)
       IN  Signed(s, SinSeries(Fin(q)))

\* 1 + y + y^2/2! + ... for y >= 0, from the k-th term on.
RECURSIVE ExpSeries(_, _, _)
ExpSeries(y, term, k) ==
  IF ~IsFinite(term) \/ term.v = 0 THEN term
  ELSE Add(term, ExpSeries(y, Div(Mul(term, y), Num(k)), k + 1))

\* e^y for a finite y >= 0: the series on [0, 2], squaring above.
RECURSIVE ExpPos(_)
ExpPos(y) ==
  IF y.v <= 2 * Scale THEN ExpSeries(y, One, 1)
  ELSE LET h == ExpPos(Fin(y.v \div 2)) IN Mul(h, Mul(h, ExpSeries(Fin(y.v % 2), One, 1)))

\* Math.exp
Exp(a) ==
  IF IsNaN(a) THEN NaN
  ELSE IF a.k = "inf" THEN (IF a.v > 0 THEN PInf ELSE Zero)
  ELSE IF a.v >= 0 THEN ExpPos(a)
  ELSE Div(One, ExpPos(Neg(a)))

\* ------------------------------------------------------ model helpers

\* normalized elastance function
normalizedElastance(tFrac) ==
  LET ts == Dec(33, 100)
  IN  IF Lt(tFrac, ts)
      THEN Pow15(Sin(Mul(Pi, Div(tFrac, ts))))
      ELSE Mul(Dec(5, 100), Exp(Mul(Num(-3), Div(Sub(tFrac, ts), Sub(One, ts)))))

\* (variant: no diode, the flow follows the pressure difference both ways)
valveFlowLeaky(P_up, P_down, Rval) == Div(Sub(P_up, P_down), Rval)
\* valve flow (diode)
valveFlow(P_up, P_down, Rval) ==
  LET dP == Sub(P_up, P_down)
  IN  IF Le(dP, Zero) THEN Zero ELSE Div(dP, Rval)

\* SVR dyn.s.cm^-5 to peripheral resistance
svr_to_Rperipheral(svr) == Div(Div(svr, Num(80)), Num(60))

Rval_mitral == Dec(5, 1000)
Rval_aortic == Dec(25, 10000)
\* initial arterial pressure guess
P_art0 == Num(90)

\* ------------------------------------------------- runSimulation, by parts

\* dt = (60.0 / params.hr) / opts.stepsPerBeat
TimeStep(p, o) == Div(Div(Num(60), p.hr), Num(o.stepsPerBeat))
\* T = 60.0 / params.hr
Period(p) == Div(Num(60), p.hr)
\* totalSteps = opts.beats * opts.stepsPerBeat
TotalSteps(o) == o.beats * o.stepsPerBeat
\* (variant: the loop stops one iteration early)
LoopCondShort(s, o) == s < TotalSteps(o) - 1
\* the loop condition  step < totalSteps
LoopCond(s, o) == s < TotalSteps(o)
\* (variant: the filter compares with > instead of >=)
RetainedStrict(s, o) == s > TotalSteps(o) - o.stepsPerBeat
\* the last-beat filter  step >= totalSteps - opts.stepsPerBeat
Retained(s, o) == s >= TotalSteps(o) - o.stepsPerBeat

\* tFrac = (t % T) / T  with  t = step * dt
CyclePhase(p, o, s) == Div(FMod(Mul(Num(s), TimeStep(p, o)), Period(p)), Period(p))
\* E_t = Emin + (Emax - Emin) * En
Elastance(p, tFrac) == Add(p.Emin, Mul(Sub(p.Emax, p.Emin), normalizedElastance(tFrac)))
\* (variant: the volume above V0 is not clamped at 0)
VentricularPressureUnclamped(p, tFrac, V) == Mul(Elastance(p, tFrac), Sub(V, p.V0))
\* P_lv = E_t * Math.max(0, V_lv - V0)
VentricularPressure(p, tFrac, V) == Mul(Elastance(p, tFrac), MathMax(Zero, Sub(V, p.V0)))

\* (variant: sequential substitution, the outflow that drains the ventricle
\* is taken against the arterial pressure already updated in the step)
EulerStepSequential(p, o, s, V, P) ==
  LET dt == TimeStep(p, o)
      tFrac == CyclePhase(p, o, s)
      P_lv == VentricularPressure(p, tFrac, V)
      Qin == valveFlow(p.rap, P_lv, Rval_mitral)
      Qout == valveFlow(P_lv, P, Rval_aortic)
      dPdt == Div(Sub(Qout, Div(P, svr_to_Rperipheral(p.svr))), p.comp)
      P_new == Add(P, Mul(dPdt, dt))
  IN  [tFrac |-> tFrac, P_lv |-> P_lv, Qin |-> Qin, Qout |-> Qout,
       V_prev |-> V, P_prev |-> P,
       P_art |-> P_new,
       V_lv |-> Add(V, Mul(Sub(Qin, valveFlow(P_lv, P_new, Rval_aortic)), dt))]

\* One pass of the loop body from the state (V, P) at step s: the values of
\* the body's constants and the state after its two updates.
EulerStep(p, o, s, V, P) ==
  LET dt == TimeStep(p, o)
      tFrac == CyclePhase(p, o, s)
      P_lv == VentricularPressure(p, tFrac, V)
      Qin == valveFlow(p.rap, P_lv, Rval_mitral)
      Qout == valveFlow(P_lv, P, Rval_aortic)
      dPdt == Div(Sub(Qout, Div(P, svr_to_Rperipheral(p.svr))), p.comp)
  IN  [tFrac |-> tFrac, P_lv |-> P_lv, Qin |-> Qin, Qout |-> Qout,
       V_prev |-> V, P_prev |-> P,
       P_art |-> Add(P, Mul(dPdt, dt)),
       V_lv |-> Add(V, Mul(Sub(Qin, Qout), dt))]

\* (variant: non-finite values are not recorded, 0 is)
SampleFiniteOnly(e) ==
  [tFrac |-> e.tFrac,
   P_art |-> IF IsFinite(e.P_art) THEN e.P_art ELSE Zero,
   P_lv |-> e.P_lv,
   V_lv |-> IF IsFinite(e.V_lv) THEN e.V_lv ELSE Zero]
\* (variant: the sample is taken before the state is updated)
SampleBeforeUpdate(e) == [tFrac |-> e.tFrac, P_art |-> e.P_prev, P_lv |-> e.P_lv, V_lv |-> e.V_prev]
\* The trace sample and the PV-loop point pushed for a retained step.
Sample(e) == [tFrac |-> e.tFrac, P_art |-> e.P_art, P_lv |-> e.P_lv, V_lv |-> e.V_lv]
PvPoint(e) == [x |-> e.V_lv, y |-> e.P_lv]

\* Math.max(...xs), Math.min(...xs), xs.reduce((a,b)=>a+b, 0)
RECURSIVE MaxOf(_)
MaxOf(xs) == IF xs = <<>> THEN NInf ELSE MathMax(Head(xs), MaxOf(Tail(xs)))
RECURSIVE MinOf(_)
MinOf(xs) == IF xs = <<>> THEN PInf ELSE MathMin(Head(xs), MinOf(Tail(xs)))
RECURSIVE SumFrom(_, _)
SumFrom(acc, xs) == IF xs = <<>> THEN acc ELSE SumFrom(Add(acc, Head(xs)), Tail(xs))

\* (variant: ESV is taken with Math.max like EDV)
MetricsEsvMax(p, tr, pv) ==
  LET Vlast == [i \in 1..Len(tr) |-> tr[i].V_lv]
      P_art_vals == [i \in 1..Len(tr) |-> tr[i].P_art]
      EDV == MaxOf(Vlast)
      ESV == MaxOf(Vlast)
      SV == MathMax(Zero, Sub(EDV, ESV))
      SBP == MaxOf(P_art_vals)
      DBP == MinOf(P_art_vals)
  IN  [traceP |-> tr, pvPoints |-> pv,
       EDV |-> EDV, ESV |-> ESV, SV |-> SV,
       CO |-> Div(Mul(p.hr, SV), Num(1000)),
       MAP |-> Div(SumFrom(Zero, P_art_vals), Num(Len(P_art_vals))),
       SBP |-> SBP, DBP |-> DBP, PP |-> Sub(SBP, DBP),
       EF |-> IF Gt(EDV, Zero) THEN Mul(Div(SV, EDV), Num(100)) ELSE Zero]

\* summary metrics from the last-beat trace, and the returned object
Metrics(p, tr, pv) ==
  LET Vlast == [i \in 1..Len(tr) |-> tr[i].V_lv]
      P_art_vals == [i \in 1..Len(tr) |-> tr[i].P_art]
      EDV == MaxOf(Vlast)
      ESV == MinOf(Vlast)
      SV == MathMax(Zero, Sub(EDV, ESV))
      SBP == MaxOf(P_art_vals)
      DBP == MinOf(P_art_vals)
  IN  [traceP |-> tr, pvPoints |-> pv,
       EDV |-> EDV, ESV |-> ESV, SV |-> SV,
       CO |-> Div(Mul(p.hr, SV), Num(1000)),
       MAP |-> Div(SumFrom(Zero, P_art_vals), Num(Len(P_art_vals))),
       SBP |-> SBP, DBP |-> DBP, PP |-> Sub(SBP, DBP),
       EF |-> IF Gt(EDV, Zero) THEN Mul(Div(SV, EDV), Num(100)) ELSE Zero]

\* ------------------------------------------------------------ parameters

Preset(hr, edv, esv, contr, svr, comp, rap, Emax, Emin, V0) ==
  [hr |-> hr, edv |-> edv, esv |-> esv, contr |-> contr, svr |-> svr,
   comp |-> comp, rap |-> rap, Emax |-> Emax, Emin |-> Emin, V0 |-> V0]

\* the preset table
presets ==
  [normal |-> Preset(Num(75), Num(120), Num(50), Dec(5, 10), Num(1200), Dec(15, 10),
                     Num(2), Num(2), Dec(6, 100), Num(10)),
   hypertension |-> Preset(Num(75), Num(120), Num(50), Dec(5, 10), Num(2000), Num(1),
                     Num(5), Dec(22, 10), Dec(6, 100), Num(10)),
   sepsis |-> Preset(Num(120), Num(120), Num(50), Dec(4, 10), Num(400), Dec(25, 10),
                     Num(1), Dec(16, 10), Dec(4, 100), Num(10)),
   hfref |-> Preset(Num(80), Num(160), Num(120), Dec(2, 10), Num(1200), Dec(12, 10),
                     Num(6), Dec(7, 10), Dec(6, 100), Num(10)),
   hfpef |-> Preset(Num(70), Num(100), Num(45), Dec(6, 10), Num(1200), Num(1),
                     Num(6), Dec(25, 10), Dec(18, 100), Num(10)),
   tachy |-> Preset(Num(140), Num(110), Num(50), Dec(45, 100), Num(1000), Dec(13, 10),
                     Num(3), Dec(19, 10), Dec(6, 100), Num(10)),
   brady |-> Preset(Num(40), Num(140), Num(50), Dec(6, 10), Num(1400), Dec(14, 10),
                     Num(3), Dec(22, 10), Dec(6, 100), Num(10))]

PresetNames == DOMAIN presets

\* Parameter records runSimulation is called with: the presets, the
\* normal preset with one field at a boundary or outside its documented
\* range, and a record of extreme values inside the documented ranges
\* (runSimulation takes any numbers).
EdgeParams ==
  LET n == presets.normal
  IN  {[n EXCEPT !.hr = Zero], [n EXCEPT !.hr = Num(-75)],
       [n EXCEPT !.comp = Zero], [n EXCEPT !.comp = Dec(1, 100)],
       [n EXCEPT !.svr = Zero],
       [n EXCEPT !.Emax = n.Emin], [n EXCEPT !.Emax = Zero],
       [n EXCEPT !.Emin = Zero],
       [presets.brady EXCEPT !.edv = Num(10010), !.Emin = Fin(5), !.Emax = Num(1000),
                             !.comp = Fin(1), !.svr = Num(1000000)]}

ParamSpace == {presets[name] : name \in PresetNames} \cup EdgeParams

OptValues(max) == {-1, 0} \cup (1..max)
OptSpace == {[stepsPerBeat |-> n, beats |-> b] : n \in OptValues(MaxSpb), b \in OptValues(MaxBeats)}

\* The options simulateAndRender passes ({stepsPerBeat: 400, beats: 8} in
\* the source), at the model's size.
UiOpts == [stepsPerBeat |-> MaxSpb, beats |-> MaxBeats]

\* map contractility (0.1..1.0) to Emax range (0.5..4.5)
AutoEmax(contr) ==
  Add(Dec(5, 10), Mul(Div(Sub(contr, Dec(1, 10)), Sub(One, Dec(1, 10))), Num(4)))

\* ------------------------------------------------------------------ state

VARIABLES
  inputs,    \* the numeric UI fields read by getParamsFromUI
  autoEsv,   \* the autoEsv checkbox
  pc,        \* "idle" | "running" (inside runSimulation's loop) | "done"
  params,    \* runSimulation's params argument
  opts,      \* runSimulation's opts argument
  step,      \* the loop counter
  V_lv,      \* ventricular volume
  P_art,     \* arterial pressure
  traceP,    \* last-beat trace
  pvPoints,  \* PV-loop points
  sim,       \* the object runSimulation returned (meaningful when pc = "done")
  sampled,   \* history: the step index of every sample pushed to traceP
  prev,      \* history: V_lv and P_art as they were before the last iteration
  ref        \* history: one completed run, kept for comparison with later ones

vars == <<inputs, autoEsv, pc, params, opts, step, V_lv, P_art, traceP, pvPoints, sim, sampled, prev, ref>>

NoSim == Metrics(presets.normal, <<>>, <<>>)
\* ref.later: a run was started after the kept one returned; ref.between: a
\* run with other parameters was.
NoRef == [set |-> FALSE, later |-> FALSE, between |-> FALSE,
          params |-> presets.normal, opts |-> UiOpts, sim |-> NoSim]

\* The engine before any call; the UI fields are those of the normal
\* preset and are not read on this path.
InitEngine ==
  /\ inputs = presets.normal
  /\ pc = "idle"
  /\ params = presets.normal
  /\ opts = UiOpts
  /\ step = 0
  /\ V_lv = Zero
  /\ P_art = Zero
  /\ traceP = <<>>
  /\ pvPoints = <<>>
  /\ sim = NoSim
  /\ sampled = <<>>
  /\ prev = [V_lv |-> Zero, P_art |-> Zero]
  /\ ref = NoRef

Init == InitEngine /\ autoEsv = FALSE

\* (variant: the arterial pressure is kept from the previous run)
EntryStateKept(p, prevV, prevP) == [V_lv |-> p.edv, P_art |-> prevP]
\* runSimulation's state variables as declared at entry, given what the
\* previous run left in them.
EntryState(p, prevV, prevP) == [V_lv |-> p.edv, P_art |-> P_art0]

\* Entry of runSimulation(p, o), up to the loop.
Enter(p, o) ==
  /\ pc \in {"idle", "done"}
  /\ pc' = "running"
  /\ params' = p
  /\ opts' = o
  /\ step' = 0
  /\ V_lv' = EntryState(p, V_lv, P_art).V_lv
  /\ P_art' = EntryState(p, V_lv, P_art).P_art
  /\ traceP' = <<>>
  /\ pvPoints' = <<>>
  /\ sampled' = <<>>
  /\ prev' = EntryState(p, V_lv, P_art)
  /\ sim' = NoSim
  /\ ref' = IF ref.set
            THEN [ref EXCEPT !.later = TRUE, !.between = @ \/ p # ref.params]
            ELSE ref

\* A caller invokes runSimulation(p, o) directly.
runSimulation ==
  \E p \in ParamSpace, o \in OptSpace :
    /\ Enter(p, o)
    /\ UNCHANGED <<inputs, autoEsv>>

\* One iteration of the integration loop.
LoopStep ==
  /\ pc = "running"
  /\ LoopCond(step, opts)
  /\ LET e == EulerStep(params, opts, step, V_lv, P_art)
     IN  /\ P_art' = e.P_art
         /\ V_lv' = e.V_lv
         /\ traceP' = IF Retained(step, opts) THEN Append(traceP, Sample(e)) ELSE traceP
         /\ pvPoints' = IF Retained(step, opts) THEN Append(pvPoints, PvPoint(e)) ELSE pvPoints
         /\ sampled' = IF Retained(step, opts) THEN Append(sampled, step) ELSE sampled
  /\ prev' = [V_lv |-> V_lv, P_art |-> P_art]
  /\ step' = step + 1
  /\ UNCHANGED <<inputs, autoEsv, pc, params, opts, sim, ref>>

\* The loop ends: the metrics are computed and the result is returned.
LoopExit ==
  /\ pc = "running"
  /\ ~LoopCond(step, opts)
  /\ sim' = Metrics(params, traceP, pvPoints)
  /\ pc' = "done"
  /\ UNCHANGED <<inputs, autoEsv, params, opts, step, V_lv, P_art, traceP, pvPoints, sampled, prev, ref>>

Next == runSimulation \/ LoopStep \/ LoopExit

Spec == Init /\ [][Next]_vars

\* ------------------------------------------------------------ the UI path

\* getParamsFromUI as simulateAndRender uses it on the fields f: Emax is
\* derived from the contractility when autoEsv is checked.
getParamsFromUI(f) == IF autoEsv THEN [f EXCEPT !.Emax = AutoEmax(f.contr)] ELSE f

\* simulateAndRender up to its call of runSimulation, the UI fields being
\* f: the derived Emax is written back to the Emax field.
SimulateFrom(f) ==
  /\ Enter(getParamsFromUI(f), UiOpts)
  /\ inputs' = getParamsFromUI(f)
  /\ UNCHANGED autoEsv

\* The preset selector changes: applyPreset(name), then simulateAndRender.
applyPreset == \E name \in PresetNames : SimulateFrom(presets[name])

\* The user ticks or unticks the autoEsv checkbox.
userInput ==
  /\ pc \in {"idle", "done"}
  /\ autoEsv' = ~autoEsv
  /\ UNCHANGED <<inputs, pc, params, opts, step, V_lv, P_art, traceP, pvPoints, sim, sampled, prev, ref>>

\* The Run button, and the call at page load.
simulateAndRender == SimulateFrom(inputs)

\* History only: keep the run that has just completed for later comparison.
Remember ==
  /\ pc = "done"
  /\ ref' = [set |-> TRUE, later |-> FALSE, between |-> FALSE,
             params |-> params, opts |-> opts, sim |-> sim]
  /\ ref' # ref
  /\ UNCHANGED <<inputs, autoEsv, pc, params, opts, step, V_lv, P_art, traceP, pvPoints, sim, sampled, prev>>

NextUi == applyPreset \/ userInput \/ simulateAndRender \/ LoopStep \/ LoopExit \/ Remember

\* The page after applyPreset('normal'), the checkbox in either position.
InitUi == InitEngine /\ autoEsv \in BOOLEAN

SpecUi == InitUi /\ [][NextUi]_vars

\* ------------------------------------------------------------ properties

Max0(n) == IF n < 0 THEN 0 ELSE n
ValidOpts(o) == o.stepsPerBeat >= 1 /\ o.beats >= 1
\* The number of samples a run with options o retains.
TraceLength(o) == IF ValidOpts(o) THEN o.stepsPerBeat ELSE 0
\* The parameter combinations the specification lists as InvalidParameter.
InvalidParameter(p, o) ==
  \/ Le(p.hr, Zero) \/ Le(p.comp, Zero) \/ Le(p.svr, Zero)
  \/ o.stepsPerBeat <= 0 \/ o.beats <= 0
  \/ Le(p.Emax, p.Emin)

\* C1: with beats >= 1 and stepsPerBeat >= 1 the trace holds, in increasing
\* step order, exactly the steps of the final beat (beats*stepsPerBeat -
\* stepsPerBeat <= s < beats*stepsPerBeat), so stepsPerBeat samples at the
\* return, and no sample of an earlier beat.
C1_TraceIsFinalBeat ==
  (pc # "idle" /\ ValidOpts(opts)) =>
    /\ Len(traceP) = Len(sampled)
    /\ Len(pvPoints) = Len(sampled)
    /\ \A i \in 1..Len(sampled) :
         sampled[i] = TotalSteps(opts) - opts.stepsPerBeat + (i - 1)
    /\ Len(sampled) = Max0(step - (TotalSteps(opts) - opts.stepsPerBeat))
    /\ pc = "done" => (sim.traceP = traceP /\ Len(sim.traceP) = opts.stepsPerBeat)

\* A two-beat run has returned: the first beat's steps were passed over.
C1_Witness ==
  /\ pc = "done"
  /\ opts.beats >= 2
  /\ opts.stepsPerBeat >= 2
  /\ Len(sim.traceP) = opts.stepsPerBeat
  /\ sampled[1] = opts.stepsPerBeat

C3_RunsAreIndependent ==
  /\ (pc = "running" /\ step = 0) =>
       /\ V_lv = params.edv
       /\ P_art = P_art0
       /\ traceP = <<>>
       /\ pvPoints = <<>>
  /\ (pc = "done" /\ ref.set /\ ref.later /\ ref.params = params /\ ref.opts = opts) =>
       sim = ref.sim

\* A run has returned the result of an earlier run with the same
\* parameters, a run with other parameters having been made in between.
C3_Witness ==
  /\ pc = "done"
  /\ ref.set /\ ref.later /\ ref.between
  /\ ref.params = params
  /\ ref.opts = opts
  /\ sim = ref.sim
  /\ Len(sim.traceP) > 0

\* The loop body's values at the last iteration executed, recomputed from
\* the state that iteration started from.
LastStep == EulerStep(params, opts, step - 1, prev.V_lv, prev.P_art)
Stepped == pc # "idle" /\ step > 0
LastSample == traceP[Len(traceP)]
LastPvPoint == pvPoints[Len(pvPoints)]

PressureGrid == {Fin(i * (Scale \div 4)) : i \in (-GridMax)..GridMax} \cup {P_art0}

\* The valve law for one pair of pressures.
DiodeLaw(P_up, P_down, Rval, Q) ==
  /\ Le(P_up, P_down) => Q = Zero
  /\ Gt(P_up, P_down) => (Q = Div(Sub(P_up, P_down), Rval) /\ Gt(Q, Zero))

\* C4 as stated: valveFlow is an ideal diode, 0 when Pup <= Pdown and
\* (Pup - Pdown)/R when Pup > Pdown, on a grid of pressures and at the
\* pressures of every iteration executed; the mitral inflow and the aortic
\* outflow of an iteration are never negative.
C4_ValveIsDiode ==
  /\ \A pu \in PressureGrid, pd \in PressureGrid, r \in {Rval_mitral, Rval_aortic} :
       DiodeLaw(pu, pd, r, valveFlow(pu, pd, r))
  /\ Stepped =>
       /\ DiodeLaw(params.rap, LastStep.P_lv, Rval_mitral, LastStep.Qin)
       /\ DiodeLaw(LastStep.P_lv, prev.P_art, Rval_aortic, LastStep.Qout)
       /\ ~Lt(LastStep.Qin, Zero)
       /\ ~Lt(LastStep.Qout, Zero)

\* Both pressures are +Infinity or both are -Infinity: their difference is
\* NaN.
SameInfinity(P_up, P_down) == ~IsFinite(P_up) /\ ~IsNaN(P_up) /\ P_up = P_down

\* The valve law for one pair of pressures, two equal infinities set apart.
DiodeLawOrNaN(P_up, P_down, Rval, Q) ==
  IF SameInfinity(P_up, P_down) THEN IsNaN(Q) ELSE DiodeLaw(P_up, P_down, Rval, Q)

\* C4 amended: valveFlow is an ideal diode, 0 when Pup <= Pdown and
\* (Pup - Pdown)/R when Pup > Pdown, for all pressures but two equal
\* infinities, for which it is NaN; this on a grid of pressures with both
\* infinities and at the pressures of every iteration executed.  The mitral
\* inflow and the aortic outflow of an iteration are never negative (each
\* is 0, positive or NaN).
C4_ValveIsDiodeButForInfinities ==
  /\ \A pu \in PressureGrid \cup {PInf, NInf}, pd \in PressureGrid \cup {PInf, NInf},
        r \in {Rval_mitral, Rval_aortic} :
       DiodeLawOrNaN(pu, pd, r, valveFlow(pu, pd, r))
  /\ Stepped =>
       /\ DiodeLawOrNaN(params.rap, LastStep.P_lv, Rval_mitral, LastStep.Qin)
       /\ DiodeLawOrNaN(LastStep.P_lv, prev.P_art, Rval_aortic, LastStep.Qout)
       /\ ~Lt(LastStep.Qin, Zero)
       /\ ~Lt(LastStep.Qout, Zero)

\* An iteration with the aortic valve open and the mitral valve closed has
\* been executed.
C4_Witness ==
  /\ Stepped
  /\ Gt(LastStep.P_lv, prev.P_art)
  /\ Gt(LastStep.Qout, Zero)
  /\ Ge(LastStep.P_lv, params.rap)
  /\ LastStep.Qin = Zero

Volumes(tr) == {tr[i].V_lv : i \in 1..Len(tr)}
Pressures(tr) == {tr[i].P_art : i \in 1..Len(tr)}
FiniteTrace(tr) == \A i \in 1..Len(tr) : IsFinite(tr[i].V_lv) /\ IsFinite(tr[i].P_art)

\* The metrics as the reductions of the trace tr they are defined to be.
Reductions(m, hr, tr) ==
  LET Vlast == [i \in 1..Len(tr) |-> tr[i].V_lv]
      P_art_vals == [i \in 1..Len(tr) |-> tr[i].P_art]
  IN  /\ m.EDV = MaxOf(Vlast)
      /\ m.ESV = MinOf(Vlast)
      /\ m.SV = MathMax(Zero, Sub(m.EDV, m.ESV))
      /\ m.CO = Div(Mul(hr, m.SV), Num(1000))
      /\ m.MAP = Div(SumFrom(Zero, P_art_vals), Num(Len(tr)))
      /\ m.SBP = MaxOf(P_art_vals)
      /\ m.DBP = MinOf(P_art_vals)
      /\ m.PP = Sub(m.SBP, m.DBP)
      /\ m.EF = IF Gt(m.EDV, Zero) THEN Mul(Div(m.SV, m.EDV), Num(100)) ELSE Zero

\* C5 as stated: for every non-empty trace the metrics are the defined
\* reductions of it, hence EDV >= ESV, SV >= 0, PP >= 0 and
\* DBP <= MAP <= SBP.
C5_MetricsOfAnyTrace ==
  (pc = "done" /\ Len(sim.traceP) > 0) =>
    /\ Reductions(sim, params.hr, sim.traceP)
    /\ Ge(sim.EDV, sim.ESV)
    /\ Ge(sim.SV, Zero)
    /\ Ge(sim.PP, Zero)
    /\ Le(sim.DBP, sim.MAP)
    /\ Le(sim.MAP, sim.SBP)

\* C5 amended: for every non-empty trace the metrics are the defined
\* reductions of it; when every volume and arterial pressure of the trace
\* is finite, EDV is the largest and ESV the smallest volume, SBP the
\* largest and DBP the smallest arterial pressure, and EDV >= ESV, SV >= 0
\* and PP >= 0.
C5_MetricsOfFiniteTrace ==
  (pc = "done" /\ Len(sim.traceP) > 0) =>
    /\ Reductions(sim, params.hr, sim.traceP)
    /\ FiniteTrace(sim.traceP) =>
         /\ sim.EDV \in Volumes(sim.traceP)
         /\ \A v \in Volumes(sim.traceP) : Le(v, sim.EDV)
         /\ sim.ESV \in Volumes(sim.traceP)
         /\ \A v \in Volumes(sim.traceP) : Ge(v, sim.ESV)
         /\ sim.SBP \in Pressures(sim.traceP)
         /\ \A q \in Pressures(sim.traceP) : Le(q, sim.SBP)
         /\ sim.DBP \in Pressures(sim.traceP)
         /\ \A q \in Pressures(sim.traceP) : Ge(q, sim.DBP)
         /\ Ge(sim.EDV, sim.ESV)
         /\ Ge(sim.SV, Zero)
         /\ Ge(sim.PP, Zero)

\* A finite trace with a positive stroke volume, pulse pressure and
\* ejection fraction has been reduced.
C5_Witness ==
  /\ pc = "done"
  /\ Len(sim.traceP) > 1
  /\ FiniteTrace(sim.traceP)
  /\ Gt(sim.SV, Zero)
  /\ Gt(sim.PP, Zero)
  /\ Gt(sim.EF, Zero)

NonFiniteState == ~IsFinite(V_lv) \/ ~IsFinite(P_art)

\* C6 as stated: once the ventricular volume or the arterial pressure is
\* non-finite the run aborts: no later iteration is executed and nothing is
\* returned.
C6_AbortsWhenNonFinite ==
  [][(pc = "running" /\ NonFiniteState) => (step' = step /\ pc' # "done")]_vars

\* C6 amended: nothing checks for non-finite values.  Once the ventricular
\* volume or the arterial pressure is non-finite the loop still runs all
\* beats*stepsPerBeat iterations, the non-finite values are pushed to the
\* trace like any other, and the trace and the metrics computed from it are
\* returned.
C6_NonFiniteRunsOn ==
  (pc # "idle" /\ NonFiniteState) =>
    /\ step >= 1
    /\ step <= TotalSteps(opts)
    /\ Retained(step - 1, opts) =>
         /\ Len(traceP) >= 1
         /\ LastSample.V_lv = V_lv
         /\ LastSample.P_art = P_art
    /\ pc = "done" =>
         /\ step = TotalSteps(opts)
         /\ sim = Metrics(params, traceP, pvPoints)
         /\ Len(sim.traceP) = TraceLength(opts)

\* A run with valid parameters has gone non-finite and has returned a full
\* trace whose mean arterial pressure is NaN.
C6_Witness ==
  /\ pc = "done"
  /\ ~InvalidParameter(params, opts)
  /\ ~IsFinite(P_art)
  /\ Len(sim.traceP) = opts.stepsPerBeat
  /\ ~FiniteTrace(sim.traceP)
  /\ IsNaN(sim.MAP)

\* C7: every iteration is a simultaneous explicit-Euler update: the
\* ventricular pressure, Qin, Qout and both deltas are computed from the
\* volume and arterial pressure held when the iteration started.
C7_SimultaneousEuler ==
  Stepped =>
    LET V == prev.V_lv
        P == prev.P_art
        dt == TimeStep(params, opts)
        P_lv == VentricularPressure(params, CyclePhase(params, opts, step - 1), V)
        Qin == valveFlow(params.rap, P_lv, Rval_mitral)
        Qout == valveFlow(P_lv, P, Rval_aortic)
        R_per == svr_to_Rperipheral(params.svr)
    IN  /\ P_art = Add(P, Mul(Div(Sub(Qout, Div(P, R_per)), params.comp), dt))
        /\ V_lv = Add(V, Mul(Sub(Qin, Qout), dt))

\* An iteration has been executed in which the outflow against the updated
\* arterial pressure would have differed from the outflow used.
C7_Witness ==
  /\ Stepped
  /\ IsFinite(V_lv) /\ IsFinite(P_art)
  /\ Gt(LastStep.Qout, Zero)
  /\ P_art # prev.P_art
  /\ valveFlow(LastStep.P_lv, P_art, Rval_aortic) # LastStep.Qout
  /\ V_lv = Add(prev.V_lv, Mul(Sub(LastStep.Qin, LastStep.Qout), TimeStep(params, opts)))

ElastanceOrdered(p) == Gt(p.Emax, p.Emin) /\ Ge(p.Emin, Zero)

\* The ventricular pressure of the last iteration is >= 0, exactly 0 for a
\* volume at or below V0, and so is the one recorded in its sample.
PressureNotNegative ==
  /\ Ge(LastStep.P_lv, Zero)
  /\ Le(prev.V_lv, params.V0) => LastStep.P_lv = Zero
  /\ Retained(step - 1, opts) => (LastSample.P_lv = LastStep.P_lv /\ Ge(LastSample.P_lv, Zero))

\* C8 as stated: with maxElastance > minElastance >= 0 the ventricular
\* pressure of every iteration is >= 0 whatever the volume has become, and
\* exactly 0 for a volume below V0 or below zero.
C8_PressureNeverNegative ==
  (Stepped /\ ElastanceOrdered(params)) => PressureNotNegative

\* The cycle phase of the last iteration is a number in [0,1).
PhaseInRange == Ge(LastStep.tFrac, Zero) /\ Lt(LastStep.tFrac, One)

\* C8 amended: with maxElastance > minElastance >= 0 and V0 >= 0, the
\* ventricular pressure of every iteration whose cycle phase is a number in
\* [0,1) and which starts from a finite volume is >= 0, and exactly 0 for a
\* volume at or below V0 (negative included).
C8_PressureOfFiniteVolume ==
  (Stepped /\ ElastanceOrdered(params) /\ Ge(params.V0, Zero) /\ PhaseInRange
     /\ IsFinite(prev.V_lv)) => PressureNotNegative

\* An iteration that started from a negative volume has recorded a zero
\* ventricular pressure.
C8_Witness ==
  /\ Stepped
  /\ ElastanceOrdered(params) /\ Ge(params.V0, Zero) /\ PhaseInRange
  /\ IsFinite(prev.V_lv) /\ Lt(prev.V_lv, Zero)
  /\ Retained(step - 1, opts)
  /\ LastSample.P_lv = Zero

\* C9: the k-th trace sample (k = 0..stepsPerBeat-1) has a cycle phase in
\* [0,1) equal to k/stepsPerBeat; the first sample has phase 0 and the
\* phases strictly increase along the trace.
C9_PhaseIsStepFraction ==
  (pc = "done" /\ ValidOpts(opts) /\ Gt(params.hr, Zero)) =>
    \A k \in 1..Len(traceP) :
      /\ Ge(traceP[k].tFrac, Zero)
      /\ Lt(traceP[k].tFrac, One)
      /\ traceP[k].tFrac = Div(Num(k - 1), Num(opts.stepsPerBeat))
      /\ k = 1 => traceP[k].tFrac = Zero
      /\ k > 1 => Lt(traceP[k - 1].tFrac, traceP[k].tFrac)

\* C10: a retained sample (and PV-loop point) holds the arterial pressure
\* and the volume as they are after the iteration's update, with the phase
\* and the ventricular pressure computed before it, from the volume the
\* iteration started from.
C10_SampleMixesPreAndPost ==
  (Stepped /\ Retained(step - 1, opts)) =>
    /\ LastSample.P_art = P_art
    /\ LastSample.V_lv = V_lv
    /\ LastSample.tFrac = CyclePhase(params, opts, step - 1)
    /\ LastSample.P_lv = VentricularPressure(params, LastSample.tFrac, prev.V_lv)
    /\ LastPvPoint = [x |-> V_lv, y |-> LastSample.P_lv]

\* A sample has been recorded whose ventricular pressure is not the one of
\* the volume stored with it.
C10_Witness ==
  /\ Stepped /\ Retained(step - 1, opts)
  /\ IsFinite(V_lv)
  /\ V_lv # prev.V_lv
  /\ LastSample.V_lv = V_lv
  /\ LastSample.P_lv # VentricularPressure(params, LastSample.tFrac, LastSample.V_lv)

====
